---- MODULE Spec2Model ----
(***************************************************************************)
(* ApprovalGuard: the risk-scoring engine and the approval scan of         *)
(* src/server.js.                                                          *)
(*                                                                         *)
(* JavaScript values are modelled as tagged records [t, n]: t is the type  *)
(* tag ("num", "undefined", "object", "string", "NaN") and n the numeric   *)
(* value of a number (0 otherwise).  Decimal strings, which carry the      *)
(* allowance and the balance into calculateRiskScore, are sequences of     *)
(* digit characters.                                                       *)
(***************************************************************************)
EXTENDS Integers, Sequences, FiniteSets, TLC

(***************************************************************************)
(* Bounds                                                                  *)
(***************************************************************************)
\* largest "ordinary" balance; the amounts checked are built around it
MaxBalance == 1
\* longest exploit list passed to the scoring function
MaxExploits == 2
\* longest sequence of logs the chain returns for one request
MaxLogs == 2
\* how many logs the loop over the logs is given when it is run on its own
MaxHistory == 3
\* how many approvals a scan of the page renders at most
MaxCards == 1
\* how many calls of revokeApproval a page sees at most
MaxRevokes == 2

(***************************************************************************)
(* The scoring tables of calculateRiskScore                                *)
(***************************************************************************)
riskLevelMap ==
  [l \in {"low", "medium", "high", "unknown"} |->
     CASE l = "low" -> 0
       [] l = "medium" -> 10
       [] l = "high" -> 20
       [] l = "unknown" -> 15]

categoryRiskMap ==
  [c \in {"DEX", "Lending", "Staking", "Bridge", "NFT", "Other", "Unknown"} |->
     CASE c = "DEX" -> 4
       [] c = "Lending" -> 12
       [] c = "Staking" -> 8
       [] c = "Bridge" -> 15
       [] c = "NFT" -> 20
       [] c = "Other" -> 20
       [] c = "Unknown" -> 25]

(***************************************************************************)
(* JavaScript values                                                       *)
(***************************************************************************)
Num(k) == [t |-> "num", n |-> k]
Undefined == [t |-> "undefined", n |-> 0]
\* a member inherited from Object.prototype (a function or an object)
ProtoMember == [t |-> "object", n |-> 0]
\* a non-numeric string, the result of number + object
Str == [t |-> "string", n |-> 0]
NaN == [t |-> "NaN", n |-> 0]

\* property names every object literal inherits from Object.prototype
ObjectPrototypeKeys == {"valueOf"}

\* obj[key] on an object literal: own property, else the prototype chain
GetProperty(obj, key) ==
  IF key \in DOMAIN obj THEN Num(obj[key])
  ELSE IF key \in ObjectPrototypeKeys THEN ProtoMember
  ELSE Undefined

\* ToBoolean
Truthy(v) ==
  CASE v.t = "num" -> v.n # 0
    [] v.t = "object" -> TRUE
    [] v.t = "string" -> TRUE
    [] OTHER -> FALSE

\* a || b
Or(a, b) == IF Truthy(a) THEN a ELSE b

\* a + b (as in riskScore += x): numeric addition, else string concatenation
Add(a, b) == IF a.t = "num" /\ b.t = "num" THEN Num(a.n + b.n) ELSE Str

\* Math.min(a, m) for a number m: a non-numeric string converts to NaN
MathMin(a, m) ==
  IF a.t = "num" THEN Num(IF a.n < m THEN a.n ELSE m) ELSE NaN

\* truthiness of a profile flag as stored in the profile
FlagValues == {"true", "false", "undefined"}
FlagTruthy(f) == f = "true"

(***************************************************************************)
(* Decimal strings: BigInt.prototype.toString and BigInt(string)           *)
(***************************************************************************)
DigitChars == <<"0", "1", "2", "3", "4", "5", "6", "7", "8", "9">>

RECURSIVE toString(_)
toString(k) ==
  IF k < 10 THEN <<DigitChars[k + 1]>>
  ELSE Append(toString(k \div 10), DigitChars[(k % 10) + 1])

DigitValue(c) == CHOOSE d \in 0..9 : DigitChars[d + 1] = c

RECURSIVE BigInt(_)
BigInt(s) ==
  IF Len(s) = 0 THEN 0
  ELSE 10 * BigInt(SubSeq(s, 1, Len(s) - 1)) + DigitValue(s[Len(s)])

\* the text of a decimal string, for the factor labels
RECURSIVE Text(_)
Text(s) == IF Len(s) = 0 THEN "" ELSE s[1] \o Text(Tail(s))

(***************************************************************************)
(* calculateRiskScore                                                      *)
(***************************************************************************)
\* the largest token amount (2^256 - 1 in the source), scaled to the bound
maxUint256 == 20 * MaxBalance + 1

Factor(nm, v, c) == [name |-> nm, value |-> v, contribution |-> c]
\* one scoring step: riskScore += add; riskFactors.push(push)
Step(a, f) == [add |-> a, push |-> f]

\* AuditFactor with the two tests in the wrong order
AuditFactor_verifiedFirst(spenderDetails) ==
  IF FlagTruthy(spenderDetails.isVerified)
    THEN Step(Num(12), Factor("Audit Status", "Verified", Num(12)))
  ELSE IF FlagTruthy(spenderDetails.audited)
    THEN Step(Num(0), Factor("Audit Status", "Audited", Num(0)))
  ELSE Step(Num(25), Factor("Audit Status", "Not Audited", Num(25)))

\* Factor 1: Audit Status
AuditFactor(spenderDetails) ==
  IF FlagTruthy(spenderDetails.audited)
    THEN Step(Num(0), Factor("Audit Status", "Audited", Num(0)))
  ELSE IF FlagTruthy(spenderDetails.isVerified)
    THEN Step(Num(12), Factor("Audit Status", "Verified", Num(12)))
  ELSE Step(Num(25), Factor("Audit Status", "Not Audited", Num(25)))

\* Factor 2: Category
CategoryFactor(spenderDetails) ==
  LET categoryRisk == Or(GetProperty(categoryRiskMap, spenderDetails.category), Num(20))
  IN Step(categoryRisk, Factor("Category", spenderDetails.category, categoryRisk))

\* Factor 3: Risk Level
RiskLevelFactor(spenderDetails) ==
  LET riskLevelScore == Or(GetProperty(riskLevelMap, spenderDetails.riskLevel), Num(15))
  IN Step(riskLevelScore, Factor("Risk Level", spenderDetails.riskLevel, riskLevelScore))

\* AllowanceFactor testing "> balance" before "> 10 * balance"
AllowanceFactor_tiersSwapped(allowance, userBalance) ==
  LET allowanceBigInt == BigInt(allowance)
  IN IF allowanceBigInt = maxUint256
       THEN Step(Num(20), Factor("Allowance", "Unlimited", Num(20)))
     ELSE IF allowanceBigInt > BigInt(userBalance)
       THEN Step(Num(10), Factor("Allowance", "High (>balance)", Num(10)))
     ELSE IF allowanceBigInt > BigInt(userBalance) * 10
       THEN Step(Num(15), Factor("Allowance", "Very High (>10x balance)", Num(15)))
     ELSE Step(Num(5), Factor("Allowance", "Reasonable", Num(5)))

\* AllowanceFactor with >= in place of > in the two comparisons
AllowanceFactor_inclusive(allowance, userBalance) ==
  LET allowanceBigInt == BigInt(allowance)
  IN IF allowanceBigInt = maxUint256
       THEN Step(Num(20), Factor("Allowance", "Unlimited", Num(20)))
     ELSE IF allowanceBigInt >= BigInt(userBalance) * 10
       THEN Step(Num(15), Factor("Allowance", "Very High (>10x balance)", Num(15)))
     ELSE IF allowanceBigInt >= BigInt(userBalance)
       THEN Step(Num(10), Factor("Allowance", "High (>balance)", Num(10)))
     ELSE Step(Num(5), Factor("Allowance", "Reasonable", Num(5)))

\* Factor 4: Allowance (both arguments are decimal strings)
AllowanceFactor(allowance, userBalance) ==
  LET allowanceBigInt == BigInt(allowance)
  IN IF allowanceBigInt = maxUint256
       THEN Step(Num(20), Factor("Allowance", "Unlimited", Num(20)))
     ELSE IF allowanceBigInt > BigInt(userBalance) * 10
       THEN Step(Num(15), Factor("Allowance", "Very High (>10x balance)", Num(15)))
     ELSE IF allowanceBigInt > BigInt(userBalance)
       THEN Step(Num(10), Factor("Allowance", "High (>balance)", Num(10)))
     ELSE Step(Num(5), Factor("Allowance", "Reasonable", Num(5)))

\* the exploits argument: an array, or undefined (defaulted to []), or null
ArrayOf(items) == [t |-> "array", items |-> items]
UndefinedArg == [t |-> "undefined", items |-> <<>>]
NullArg == [t |-> "null", items |-> <<>>]

\* the default parameter value: exploits = []
DefaultExploits(exploits) ==
  IF exploits.t = "undefined" THEN ArrayOf(<<>>) ELSE exploits

\* ExploitFactor scoring one point block per exploit
ExploitFactor_perExploit(exploits) ==
  IF exploits.t = "array" /\ Len(exploits.items) > 0
    THEN Step(Num(15 * Len(exploits.items)),
              Factor("Known Exploits",
                     Text(toString(Len(exploits.items))) \o " exploit(s) found",
                     Num(15 * Len(exploits.items))))
  ELSE Step(Num(0), Factor("Known Exploits", "None", Num(0)))

\* Factor 5: Known Exploits (the else branch adds nothing to riskScore)
ExploitFactor(exploits) ==
  IF exploits.t = "array" /\ Len(exploits.items) > 0
    THEN Step(Num(15),
              Factor("Known Exploits",
                     Text(toString(Len(exploits.items))) \o " exploit(s) found",
                     Num(15)))
  ELSE Step(Num(0), Factor("Known Exploits", "None", Num(0)))

\* calculateRiskScore rescaling the sum to 0..100 instead of capping it
calculateRiskScore_rescaled(spenderDetails, allowance, userBalance, exploits) ==
  LET f1 == AuditFactor(spenderDetails)
      f2 == CategoryFactor(spenderDetails)
      f3 == RiskLevelFactor(spenderDetails)
      f4 == AllowanceFactor(allowance, userBalance)
      f5 == ExploitFactor(DefaultExploits(exploits))
      riskScore == Add(Add(Add(Add(Add(Num(0), f1.add), f2.add), f3.add), f4.add), f5.add)
  IN  [score |-> IF riskScore.t = "num" THEN Num((riskScore.n * 100) \div 105) ELSE NaN,
       factors |-> <<f1.push, f2.push, f3.push, f4.push, f5.push>>]

\* calculateRiskScore recording no exploit factor when there is no exploit
calculateRiskScore_noNoneFactor(spenderDetails, allowance, userBalance, exploits) ==
  LET f1 == AuditFactor(spenderDetails)
      f2 == CategoryFactor(spenderDetails)
      f3 == RiskLevelFactor(spenderDetails)
      f4 == AllowanceFactor(allowance, userBalance)
      f5 == ExploitFactor(DefaultExploits(exploits))
      riskScore == Add(Add(Add(Add(Add(Num(0), f1.add), f2.add), f3.add), f4.add), f5.add)
  IN  [score |-> MathMin(riskScore, 100),
       factors |-> IF f5.add.n > 0
                     THEN <<f1.push, f2.push, f3.push, f4.push, f5.push>>
                     ELSE <<f1.push, f2.push, f3.push, f4.push>>]

calculateRiskScore(spenderDetails, allowance, userBalance, exploits) ==
  LET f1 == AuditFactor(spenderDetails)
      f2 == CategoryFactor(spenderDetails)
      f3 == RiskLevelFactor(spenderDetails)
      f4 == AllowanceFactor(allowance, userBalance)
      f5 == ExploitFactor(DefaultExploits(exploits))
      riskScore == Add(Add(Add(Add(Add(Num(0), f1.add), f2.add), f3.add), f4.add), f5.add)
  IN  [score |-> MathMin(riskScore, 100),
       factors |-> <<f1.push, f2.push, f3.push, f4.push, f5.push>>]

(***************************************************************************)
(* Addresses and the two registries loaded at startup                      *)
(***************************************************************************)
\* an address is a sequence of hexadecimal characters (the "0x" is left out)
LowerChar(c) ==
  CASE c = "A" -> "a" [] c = "B" -> "b" [] c = "C" -> "c" [] OTHER -> c

\* String.prototype.toLowerCase
toLowerCase(a) == [i \in 1..Len(a) |-> LowerChar(a[i])]

\* the contracts of contract_database.json, as written in the file
dbContracts ==
  << [address |-> <<"A", "a">>, name |-> "Uniswap V2 Router", verified |-> "true",
      riskLevel |-> "low", category |-> "DEX", audited |-> "true"] >>

\* the exploits of exploit_database.json, in file order
exploitDbExploits ==
  << [name |-> "E1", affectedContracts |-> << <<"A", "A">>, <<"b", "B">> >>],
     [name |-> "E2", affectedContracts |-> << <<"a", "a">> >>] >>

\* db.contracts.forEach(contract => contractDatabase[lower(address)] = contract)
RECURSIVE LoadContracts(_, _)
LoadContracts(db, k) ==
  IF k = 0 THEN <<>>
  ELSE LET prev == LoadContracts(db, k - 1)
           key == toLowerCase(db[k].address)
       IN  [x \in (DOMAIN prev) \cup {key} |-> IF x = key THEN db[k] ELSE prev[x]]

\* one exploit pushed under each of its affected contracts, lowercased
RECURSIVE PushExploit(_, _, _)
PushExploit(map, exploit, k) ==
  IF k = 0 THEN map
  ELSE LET prev == PushExploit(map, exploit, k - 1)
           key == toLowerCase(exploit.affectedContracts[k])
       IN  [x \in (DOMAIN prev) \cup {key} |->
              IF x = key
                THEN Append(IF key \in DOMAIN prev THEN prev[key] ELSE <<>>, exploit)
                ELSE prev[x]]

RECURSIVE LoadExploits(_, _)
LoadExploits(db, k) ==
  IF k = 0 THEN <<>>
  ELSE PushExploit(LoadExploits(db, k - 1), db[k], Len(db[k].affectedContracts))

(***************************************************************************)
(* Inputs                                                                  *)
(***************************************************************************)
Categories == (DOMAIN categoryRiskMap) \cup {"Gaming", "undefined"} \cup ObjectPrototypeKeys
RiskLevels == (DOMAIN riskLevelMap) \cup {"critical", "undefined"} \cup ObjectPrototypeKeys

Profiles == [audited : FlagValues, isVerified : FlagValues,
             category : Categories, riskLevel : RiskLevels]

\* amounts around the tier boundaries of every balance up to MaxBalance,
\* and the two largest amounts
Amounts ==
  {a \in 0..maxUint256 :
     \/ \E b \in 0..MaxBalance : a \in {b, 10 * b, 10 * b + 1, 20 * b}
     \/ a \in {maxUint256 - 1, maxUint256}}

ExploitNames == <<"E1", "E2", "E3">>
ExploitArgs ==
  {UndefinedArg, NullArg} \cup {ArrayOf(SubSeq(ExploitNames, 1, k)) : k \in 0..MaxExploits}

ScoreArgs == [spenderDetails : Profiles, allowance : Amounts,
              userBalance : Amounts, exploits : ExploitArgs]

NoArgs == [spenderDetails |-> [audited |-> "undefined", isVerified |-> "undefined",
                               category |-> "undefined", riskLevel |-> "undefined"],
           allowance |-> 0, userBalance |-> 0, exploits |-> UndefinedArg]

NoResult == [score |-> Undefined, factors |-> <<>>]

\* amounts the chain returns for allowance and balanceOf
ChainAmounts == {0, 1, maxUint256}
\* the balances balanceOf can return: below and not below an allowance of 1
ChainBalances == {0, 1}

VARIABLES
  args,             \* the arguments of a direct call of calculateRiskScore
  result,           \* what that call returned (NoResult before it returns)
  called,           \* whether that call has returned
  contractDatabase, \* lowercased address -> contract of contract_database.json
  exploitDatabase,  \* lowercased address -> list of exploits
  address,          \* the argument of a direct call of checkForExploits
  found,            \* what that call returned
  req,              \* the body of the POST /api/approvals request
  logs,             \* the logs the chain returned for the request
  pc,               \* position of the request handler ("off": no request)
  activeApprovals,  \* the candidates, in Map insertion order
  tasks,            \* one async task per candidate
  service,          \* per candidate, how the verification service answered
  response,         \* the response sent
  calls,            \* how many external calls were issued, per kind and candidate
  page,             \* position of the page script ("off": no page)
  connectedAddress, \* the page's connectedAddress (null until a wallet connects)
  scanned,          \* the address captured by the running or last scan of the page
  cards,            \* the revoke buttons rendered, in order
  revoke,           \* how often revokeApproval was called, and its last arguments
  sent,             \* the transactions handed to window.ethereum, in order
  message           \* what showMessage displayed last

vars == <<args, result, called, address, found, contractDatabase, exploitDatabase,
          req, logs, pc, activeApprovals, tasks, service, response, calls,
          page, connectedAddress, scanned, cards, revoke, sent, message>>

scoreVars == <<args, result, called>>
lookupVars == <<address, found>>
scanVars == <<req, logs, pc, activeApprovals, tasks, service, response, calls>>
registries == <<contractDatabase, exploitDatabase>>
clientVars == <<page, connectedAddress, scanned, cards, revoke, sent, message>>

NoResponse == [status |-> 0, success |-> FALSE, count |-> 0, approvals |-> <<>>, error |-> ""]
NoCalls == [k \in {} |-> 0]
NoRequest == [walletAddress |-> "undefined", chainId |-> "undefined"]
NoAddress == <<>>
NotLooked == [t |-> "pending", items |-> <<>>]
\* null, undefined and '': the falsy values an address variable can hold
null == <<>>
NoRevoke == [n |-> 0, tokenAddress |-> null, spenderAddress |-> null, walletAddress |-> null]

\* no page is open
PageOff ==
  /\ page = "off"
  /\ connectedAddress = null
  /\ scanned = null
  /\ cards = <<>>
  /\ revoke = NoRevoke
  /\ sent = <<>>
  /\ message = ""

\* the state after the module body has run: both registries are loaded
Loaded ==
  /\ contractDatabase = LoadContracts(dbContracts, Len(dbContracts))
  /\ exploitDatabase = LoadExploits(exploitDbExploits, Len(exploitDbExploits))

(***************************************************************************)
(* Direct calls of calculateRiskScore                                      *)
(***************************************************************************)
ScoreInit ==
  /\ args \in ScoreArgs
  /\ result = NoResult
  /\ called = FALSE
  /\ Loaded
  /\ PageOff
  /\ address = NoAddress
  /\ found = NotLooked
  /\ req = NoRequest
  /\ logs = <<>>
  /\ pc = "off"
  /\ activeApprovals = <<>>
  /\ tasks = <<>>
  /\ service = <<>>
  /\ response = NoResponse
  /\ calls = NoCalls

\* one call of calculateRiskScore, with the amounts passed as decimal strings
Score ==
  /\ pc = "off"
  /\ page = "off"
  /\ address = NoAddress
  /\ logs = <<>>
  /\ ~called
  /\ result' = calculateRiskScore(args.spenderDetails, toString(args.allowance),
                                  toString(args.userBalance), args.exploits)
  /\ called' = TRUE
  /\ UNCHANGED <<args, registries, scanVars, lookupVars, clientVars>>

ScoreNext == Score

SpecScore == ScoreInit /\ [][ScoreNext]_vars

(***************************************************************************)
(* checkForExploits and getSpenderDetails                                  *)
(***************************************************************************)
\* checkForExploits without the toLowerCase normalisation
checkForExploits_caseSensitive(spenderAddress) ==
  IF spenderAddress \in DOMAIN exploitDatabase
    THEN exploitDatabase[spenderAddress]
    ELSE <<>>

\* exploitDatabase[normalizedAddress] || []
checkForExploits(spenderAddress) ==
  LET normalizedAddress == toLowerCase(spenderAddress)
  IN  IF normalizedAddress \in DOMAIN exploitDatabase
        THEN exploitDatabase[normalizedAddress]
        ELSE <<>>

(***************************************************************************)
(* Direct calls of checkForExploits                                        *)
(***************************************************************************)
AddressChars == {"a", "A", "b", "B", "c", "C"}
Addresses == {<<x, y>> : x \in AddressChars, y \in AddressChars}

LookupInit ==
  /\ address \in Addresses
  /\ found = NotLooked
  /\ Loaded
  /\ PageOff
  /\ args = NoArgs
  /\ result = NoResult
  /\ called = FALSE
  /\ req = NoRequest
  /\ logs = <<>>
  /\ pc = "off"
  /\ activeApprovals = <<>>
  /\ tasks = <<>>
  /\ service = <<>>
  /\ response = NoResponse
  /\ calls = NoCalls

\* Lookup that stores the empty list it returns for an unknown address
Lookup_memoizing ==
  /\ pc = "off"
  /\ address # NoAddress
  /\ found = NotLooked
  /\ found' = ArrayOf(checkForExploits(address))
  /\ exploitDatabase' =
       [x \in (DOMAIN exploitDatabase) \cup {toLowerCase(address)} |->
          IF x \in DOMAIN exploitDatabase THEN exploitDatabase[x] ELSE <<>>]
  /\ UNCHANGED <<address, contractDatabase, scoreVars, scanVars, clientVars>>

\* one call of checkForExploits
Lookup ==
  /\ pc = "off"
  /\ address # NoAddress
  /\ found = NotLooked
  /\ found' = ArrayOf(checkForExploits(address))
  /\ UNCHANGED <<address, registries, scoreVars, scanVars, clientVars>>

LookupNext == Lookup

\* InContractDatabase without the toLowerCase normalisation
InContractDatabase_caseSensitive(spenderAddress) ==
  spenderAddress \in DOMAIN contractDatabase

\* whether getSpenderDetails finds the spender in the contract database
InContractDatabase(spenderAddress) ==
  toLowerCase(spenderAddress) \in DOMAIN contractDatabase

\* step 1: the profile copied from the contract database
LocalProfile(spenderAddress) ==
  LET dbContract == contractDatabase[toLowerCase(spenderAddress)]
  IN  [name |-> dbContract.name, isVerified |-> dbContract.verified,
       riskLevel |-> dbContract.riskLevel, category |-> dbContract.category,
       audited |-> dbContract.audited]

\* what the verification service can answer in response.data.result
EtherscanResults ==
  { <<>>,
    << [ContractName |-> "SwapRouter", SourceCode |-> "contract SwapRouter {}"] >>,
    << [ContractName |-> "", SourceCode |-> ""] >> }

\* step 2: the profile synthesized from the first result of the service
SynthesizedProfile(contract) ==
  [name |-> IF contract.ContractName # "" THEN contract.ContractName
                                          ELSE "Unknown Contract",
   isVerified |-> IF contract.SourceCode # "" THEN "true" ELSE "false",
   riskLevel |-> "unknown", category |-> "Other", audited |-> "false"]

\* step 3: the pessimistic default
DefaultProfile ==
  [name |-> "Unknown Contract", isVerified |-> "false", riskLevel |-> "high",
   category |-> "Unknown", audited |-> "false"]

\* getSpenderDetails once the service has answered with response.data.result
ProfileFromService(etherscanResult) ==
  IF Len(etherscanResult) > 0
    THEN SynthesizedProfile(etherscanResult[1])
    ELSE DefaultProfile

(***************************************************************************)
(* POST /api/approvals                                                     *)
(***************************************************************************)
WalletInputs == {"undefined", "0xnothex", "0xOwner"}
\* !walletAddress || !ethers.isAddress(walletAddress)
InvalidAddress(walletAddress) == walletAddress # "0xOwner"

\* chainId values: absent, 1, 5, 0 and a string
ChainInputs == {Undefined, Num(1), Num(5), Num(0), Str}
\* chainId && chainId !== 1
UnsupportedChain(chainId) == Truthy(chainId) /\ chainId # Num(1)

\* the approval logs the chain can return; an ERC-721 Approval does not parse
LogEntries ==
  { [address |-> "T1", spender |-> <<"A", "a">>, parses |-> TRUE],
    [address |-> "T1", spender |-> <<"b", "B">>, parses |-> TRUE],
    [address |-> "T1", spender |-> <<"c", "c">>, parses |-> TRUE],
    [address |-> "T2", spender |-> <<"A", "a">>, parses |-> TRUE],
    [address |-> "T2", spender |-> <<"b", "B">>, parses |-> FALSE] }

LogSeqs == UNION { [1..k -> LogEntries] : k \in 0..MaxLogs }

\* an array push in place of Map.prototype.set
MapSet_push(map, key, value) == Append(map, [key |-> key, value |-> value])

\* a set that deletes a known key first, so that it goes last again
MapSet_moveToEnd(map, key, value) ==
  Append(SelectSeq(map, LAMBDA e : e.key # key), [key |-> key, value |-> value])

\* Map.prototype.set: a known key keeps its position, a new key goes last
MapSet(map, key, value) ==
  IF \E i \in 1..Len(map) : map[i].key = key
    THEN [i \in 1..Len(map) |-> IF map[i].key = key THEN [key |-> key, value |-> value]
                                                    ELSE map[i]]
    ELSE Append(map, [key |-> key, value |-> value])

\* the loop over the logs that fills activeApprovals
RECURSIVE CollectApprovals(_, _)
CollectApprovals(ls, k) ==
  IF k = 0 THEN <<>>
  ELSE LET prev == CollectApprovals(ls, k - 1)
           log == ls[k]
       IN  IF log.parses
             THEN MapSet(prev, <<log.address, log.spender>>,
                         [tokenAddress |-> log.address, spender |-> log.spender])
             ELSE prev

\* the loop of lines 140-151 run on its own, on longer histories
Histories == UNION { [1..k -> LogEntries] : k \in 1..MaxHistory }

CollectInit ==
  /\ logs \in Histories
  /\ activeApprovals = <<>>
  /\ pc = "off"
  /\ req = NoRequest
  /\ tasks = <<>>
  /\ service = <<>>
  /\ response = NoResponse
  /\ calls = NoCalls
  /\ Loaded
  /\ PageOff
  /\ args = NoArgs
  /\ result = NoResult
  /\ called = FALSE
  /\ address = NoAddress
  /\ found = NotLooked

Collect ==
  /\ pc = "off"
  /\ Len(logs) > 0
  /\ activeApprovals = <<>>
  /\ activeApprovals' = CollectApprovals(logs, Len(logs))
  /\ UNCHANGED <<req, logs, pc, tasks, service, response, calls, registries,
                 scoreVars, lookupVars, clientVars>>

CollectNext == Collect

\* Array.from(activeApprovals.values())
MapValues(map) == [i \in 1..Len(map) |-> map[i].value]

NoApproval ==
  [tokenAddress |-> "", spender |-> <<>>, allowance |-> 0, userBalance |-> 0,
   spenderName |-> "", isVerified |-> "undefined", riskLevel |-> "undefined",
   category |-> "undefined", audited |-> "undefined", riskScore |-> Undefined,
   riskFactors |-> <<>>, exploits |-> <<>>, hasKnownExploit |-> FALSE]

\* the value a candidate's async function resolves to
Pending == [t |-> "pending", v |-> NoApproval]
RetUndefined == [t |-> "undefined", v |-> NoApproval]
RetNull == [t |-> "null", v |-> NoApproval]
RetObject(r) == [t |-> "object", v |-> r]

\* the object returned for a candidate with a positive allowance; the token
\* name, symbol and decimals and the unit formatting of the two amounts are
\* passed through and left out
ApprovalResult(approval, allowance, balance, spenderDetails) ==
  LET exploits == checkForExploits(approval.spender)
      riskScoring == calculateRiskScore(spenderDetails, toString(allowance),
                                        toString(balance), ArrayOf(exploits))
  IN  [tokenAddress |-> approval.tokenAddress,
       spender |-> approval.spender,
       allowance |-> allowance,
       userBalance |-> balance,
       spenderName |-> spenderDetails.name,
       isVerified |-> spenderDetails.isVerified,
       riskLevel |-> spenderDetails.riskLevel,
       category |-> spenderDetails.category,
       audited |-> spenderDetails.audited,
       riskScore |-> riskScoring.score,
       riskFactors |-> riskScoring.factors,
       exploits |-> exploits,
       hasKnownExploit |-> Len(exploits) > 0]

\* how the call of the verification service made for a candidate ended
NotAsked == [t |-> "not asked", result |-> <<>>]
ServiceFailed == [t |-> "failed", result |-> <<>>]
Answered(etherscanResult) == [t |-> "answered", result |-> etherscanResult]

Task(p, a, b, r) == [pc |-> p, allowance |-> a, balance |-> b, ret |-> r]

\* one more external call of this kind for candidate i (0: the request)
Issue(c, kind, i) ==
  LET k == <<kind, i>>
  IN  [x \in (DOMAIN c) \cup {k} |->
         (IF x \in DOMAIN c THEN c[x] ELSE 0) + (IF x = k THEN 1 ELSE 0)]

RECURSIVE IssueAll(_, _, _)
IssueAll(c, kind, n) == IF n = 0 THEN c ELSE Issue(IssueAll(c, kind, n - 1), kind, n)

ScanInit ==
  /\ req \in [walletAddress : WalletInputs, chainId : ChainInputs]
  /\ logs = <<>>
  /\ pc = "validate"
  /\ activeApprovals = <<>>
  /\ tasks = <<>>
  /\ service = <<>>
  /\ response = NoResponse
  /\ calls = NoCalls
  /\ Loaded
  /\ PageOff
  /\ args = NoArgs
  /\ result = NoResult
  /\ called = FALSE
  /\ address = NoAddress
  /\ found = NotLooked

\* lines 119-121
RejectAddress ==
  /\ pc = "validate"
  /\ InvalidAddress(req.walletAddress)
  /\ response' = [NoResponse EXCEPT !.status = 400, !.error = "Invalid Ethereum address"]
  /\ pc' = "done"
  /\ UNCHANGED <<req, logs, service, activeApprovals, tasks, calls, registries, scoreVars, lookupVars, clientVars>>

\* lines 125-127
RejectChain ==
  /\ pc = "validate"
  /\ ~InvalidAddress(req.walletAddress)
  /\ UnsupportedChain(req.chainId)
  /\ response' = [NoResponse EXCEPT !.status = 400,
                    !.error = "Currently only Ethereum mainnet is supported"]
  /\ pc' = "done"
  /\ UNCHANGED <<req, logs, service, activeApprovals, tasks, calls, registries, scoreVars, lookupVars, clientVars>>

\* lines 129-136: the log query is sent
QueryLogs ==
  /\ pc = "validate"
  /\ ~InvalidAddress(req.walletAddress)
  /\ ~UnsupportedChain(req.chainId)
  /\ calls' = Issue(calls, "getLogs", 0)
  /\ pc' = "getLogs"
  /\ UNCHANGED <<req, logs, service, activeApprovals, tasks, response, registries, scoreVars, lookupVars, clientVars>>

\* lines 138-207: the logs arrive, the candidates are collected and every
\* candidate's async function runs up to its allowance read
LogsReturn ==
  /\ pc = "getLogs"
  /\ \E ls \in LogSeqs :
       LET map == CollectApprovals(ls, Len(ls))
       IN  /\ logs' = ls
           /\ activeApprovals' = map
           /\ tasks' = [i \in 1..Len(map) |-> Task("allowance", 0, 0, Pending)]
           /\ service' = [i \in 1..Len(map) |-> NotAsked]
           /\ calls' = IssueAll(calls, "allowance", Len(map))
  /\ pc' = "join"
  /\ UNCHANGED <<req, response, registries, scoreVars, lookupVars, clientVars>>

\* the errors the provider can reject a call with
ProviderErrors ==
  {[message |-> "could not coalesce error (code=UNKNOWN_ERROR)"],
   [message |-> "request timeout (code=TIMEOUT)"]}

\* LogsFail that queries the logs again
LogsFail_retry ==
  /\ pc = "getLogs"
  /\ calls' = Issue(calls, "getLogs", 0)
  /\ UNCHANGED <<req, logs, pc, service, activeApprovals, tasks, response, registries, scoreVars, lookupVars, clientVars>>

\* lines 216-219: the log query fails
LogsFail ==
  /\ pc = "getLogs"
  /\ \E error \in ProviderErrors :
       response' = [NoResponse EXCEPT !.status = 500, !.error = error.message]
  /\ pc' = "done"
  /\ UNCHANGED <<req, logs, service, activeApprovals, tasks, calls, registries, scoreVars, lookupVars, clientVars>>

\* AllowanceReturn without the test allowance > 0n
AllowanceReturn_noZeroCheck(i) ==
  /\ pc = "join"
  /\ tasks[i].pc = "allowance"
  /\ \E allowance \in ChainAmounts :
       /\ tasks' = [tasks EXCEPT ![i] = Task("metadata", allowance, 0, Pending)]
       /\ calls' = Issue(Issue(Issue(Issue(calls, "name", i), "symbol", i),
                               "decimals", i), "balanceOf", i)
  /\ UNCHANGED <<req, logs, service, pc, activeApprovals, response, registries, scoreVars, lookupVars, clientVars>>

\* lines 162-173: the allowance read returns
AllowanceReturn(i) ==
  /\ pc = "join"
  /\ tasks[i].pc = "allowance"
  /\ \E allowance \in ChainAmounts :
       IF allowance > 0
         THEN /\ tasks' = [tasks EXCEPT ![i] = Task("metadata", allowance, 0, Pending)]
              /\ calls' = Issue(Issue(Issue(Issue(calls, "name", i), "symbol", i),
                                      "decimals", i), "balanceOf", i)
         ELSE /\ tasks' = [tasks EXCEPT ![i] = Task("done", 0, 0, RetUndefined)]
              /\ calls' = calls
  /\ UNCHANGED <<req, logs, service, pc, activeApprovals, response, registries, scoreVars, lookupVars, clientVars>>

\* AllowanceFail that goes on to the metadata reads
AllowanceFail_continues(i) ==
  /\ pc = "join"
  /\ tasks[i].pc = "allowance"
  /\ tasks' = [tasks EXCEPT ![i] = Task("metadata", 0, 0, Pending)]
  /\ calls' = Issue(Issue(Issue(Issue(calls, "name", i), "symbol", i),
                          "decimals", i), "balanceOf", i)
  /\ UNCHANGED <<req, logs, service, pc, activeApprovals, response, registries, scoreVars, lookupVars, clientVars>>

\* AllowanceFail without the candidate's own try/catch: the rejection reaches
\* Promise.all and the handler's catch
AllowanceFail_unhandled(i) ==
  /\ pc = "join"
  /\ tasks[i].pc = "allowance"
  /\ tasks' = [tasks EXCEPT ![i] = Task("done", 0, 0, RetNull)]
  /\ response' = [NoResponse EXCEPT !.status = 500, !.error = "allowance error"]
  /\ pc' = "done"
  /\ UNCHANGED <<req, logs, service, activeApprovals, calls, registries, scoreVars, lookupVars, clientVars>>

\* lines 202-205: the allowance read fails
AllowanceFail(i) ==
  /\ pc = "join"
  /\ tasks[i].pc = "allowance"
  /\ tasks' = [tasks EXCEPT ![i] = Task("done", 0, 0, RetNull)]
  /\ UNCHANGED <<req, logs, service, pc, activeApprovals, response, calls, registries, scoreVars, lookupVars, clientVars>>

\* lines 168-200 and 311-336: the four metadata reads have returned;
\* getSpenderDetails answers from the contract database or asks the service
MetadataReturn(i) ==
  /\ pc = "join"
  /\ tasks[i].pc = "metadata"
  /\ \E balance \in ChainBalances :
       LET approval == MapValues(activeApprovals)[i]
       IN  IF InContractDatabase(approval.spender)
             THEN /\ tasks' = [tasks EXCEPT ![i] =
                        Task("done", tasks[i].allowance, balance,
                             RetObject(ApprovalResult(approval, tasks[i].allowance, balance,
                                                      LocalProfile(approval.spender))))]
                  /\ calls' = calls
             ELSE /\ tasks' = [tasks EXCEPT ![i] =
                        Task("etherscan", tasks[i].allowance, balance, Pending)]
                  /\ calls' = Issue(calls, "etherscan", i)
  /\ UNCHANGED <<req, logs, service, pc, activeApprovals, response, registries, scoreVars, lookupVars, clientVars>>

\* lines 202-205: one of the four metadata reads fails
MetadataFail(i) ==
  /\ pc = "join"
  /\ tasks[i].pc = "metadata"
  /\ tasks' = [tasks EXCEPT ![i] = Task("done", 0, 0, RetNull)]
  /\ UNCHANGED <<req, logs, service, pc, activeApprovals, response, calls, registries, scoreVars, lookupVars, clientVars>>

\* lines 338-368 and 176-200: the verification service answers
EtherscanReturn(i) ==
  /\ pc = "join"
  /\ tasks[i].pc = "etherscan"
  /\ \E etherscanResult \in EtherscanResults :
       /\ tasks' = [tasks EXCEPT ![i] =
         Task("done", tasks[i].allowance, tasks[i].balance,
              RetObject(ApprovalResult(MapValues(activeApprovals)[i], tasks[i].allowance,
                                       tasks[i].balance,
                                       ProfileFromService(etherscanResult))))]
       /\ service' = [service EXCEPT ![i] = Answered(etherscanResult)]
  /\ UNCHANGED <<req, logs, pc, activeApprovals, response, calls, registries, scoreVars, lookupVars, clientVars>>

\* EtherscanFail without the resolver's try/catch: the rejection reaches
\* the candidate's catch, which drops the candidate
EtherscanFail_rethrown(i) ==
  /\ pc = "join"
  /\ tasks[i].pc = "etherscan"
  /\ tasks' = [tasks EXCEPT ![i] = Task("done", tasks[i].allowance, tasks[i].balance, RetNull)]
  /\ service' = [service EXCEPT ![i] = ServiceFailed]
  /\ UNCHANGED <<req, logs, pc, activeApprovals, response, calls, registries, scoreVars, lookupVars, clientVars>>

\* lines 354-368 and 176-200: the call of the verification service fails
EtherscanFail(i) ==
  /\ pc = "join"
  /\ tasks[i].pc = "etherscan"
  /\ tasks' = [tasks EXCEPT ![i] =
       Task("done", tasks[i].allowance, tasks[i].balance,
            RetObject(ApprovalResult(MapValues(activeApprovals)[i], tasks[i].allowance,
                                     tasks[i].balance, DefaultProfile)))]
  /\ service' = [service EXCEPT ![i] = ServiceFailed]
  /\ UNCHANGED <<req, logs, pc, activeApprovals, response, calls, registries, scoreVars, lookupVars, clientVars>>

\* (await Promise.all(approvalPromises)).filter(Boolean)
RECURSIVE FilterBoolean(_, _)
FilterBoolean(ts, k) ==
  IF k = 0 THEN <<>>
  ELSE IF ts[k].ret.t = "object"
         THEN Append(FilterBoolean(ts, k - 1), ts[k].ret.v)
         ELSE FilterBoolean(ts, k - 1)

\* Respond without awaiting Promise.all: whatever has settled is sent
Respond_noJoin ==
  /\ pc = "join"
  /\ LET detailedApprovals == FilterBoolean(tasks, Len(tasks))
     IN  response' = [NoResponse EXCEPT !.status = 200, !.success = TRUE,
                        !.count = Len(detailedApprovals),
                        !.approvals = detailedApprovals]
  /\ pc' = "done"
  /\ UNCHANGED <<req, logs, service, activeApprovals, tasks, calls, registries, scoreVars, lookupVars, clientVars>>

\* lines 209-215: every candidate's promise has settled
Respond ==
  /\ pc = "join"
  /\ \A i \in 1..Len(tasks) : tasks[i].pc = "done"
  /\ LET detailedApprovals == FilterBoolean(tasks, Len(tasks))
     IN  response' = [NoResponse EXCEPT !.status = 200, !.success = TRUE,
                        !.count = Len(detailedApprovals),
                        !.approvals = detailedApprovals]
  /\ pc' = "done"
  /\ UNCHANGED <<req, logs, service, activeApprovals, tasks, calls, registries, scoreVars, lookupVars, clientVars>>

ScanNext ==
  \/ RejectAddress
  \/ RejectChain
  \/ QueryLogs
  \/ LogsReturn
  \/ LogsFail
  \/ \E i \in 1..Len(tasks) : AllowanceReturn(i)
  \/ \E i \in 1..Len(tasks) : AllowanceFail(i)
  \/ \E i \in 1..Len(tasks) : MetadataReturn(i)
  \/ \E i \in 1..Len(tasks) : MetadataFail(i)
  \/ \E i \in 1..Len(tasks) : EtherscanReturn(i)
  \/ \E i \in 1..Len(tasks) : EtherscanFail(i)
  \/ Respond

SpecScan == ScanInit /\ [][ScanNext]_vars

(***************************************************************************)
(* The page: wallet connection, scan and revocation                        *)
(***************************************************************************)
\* "0x" and forty hexadecimal characters
HexAddress(c, d) == <<"0", "x">> \o [i \in 1..40 |-> IF i % 2 = 1 THEN c ELSE d]

\* the accounts a wallet can return
Accounts == {HexAddress("a", "b"), HexAddress("c", "1")}
\* what the address input can hold when a scan starts
WalletInputValues == {HexAddress("a", "b"), HexAddress("A", "b"), HexAddress("c", "1")}
PageTokens == {HexAddress("1", "2")}
PageSpenders == {HexAddress("A", "A"), HexAddress("0", "1"), HexAddress("b", "C")}

\* String.prototype.slice(start)
slice(str, start) == SubSeq(str, start + 1, Len(str))

\* String.prototype.padStart with a one-character pad string
padStart(str, targetLength, padString) ==
  IF Len(str) >= targetLength THEN str
  ELSE [i \in 1..(targetLength - Len(str)) |-> padString] \o str

\* String.prototype.padEnd with a one-character pad string
padEnd(str, targetLength, padString) ==
  IF Len(str) >= targetLength THEN str
  ELSE str \o [i \in 1..(targetLength - Len(str)) |-> padString]

selector == <<"0", "x", "0", "9", "5", "e", "a", "7", "b", "3">>

\* data with the address padded on the right
data_padEnd(spenderAddress) ==
  selector \o padEnd(slice(spenderAddress, 2), 64, "0") \o padStart(<<"0">>, 64, "0")

\* lines 1316-1318: the calldata of approve(spender, 0)
data(spenderAddress) ==
  selector \o padStart(slice(spenderAddress, 2), 64, "0") \o padStart(<<"0">>, 64, "0")

\* revokeApproval without the comparison with the approval owner
revokeApproval_noOwnerCheck(tokenAddress, spenderAddress, walletAddress) ==
  IF connectedAddress = null
    THEN [message |-> "Please connect your wallet first", txs |-> <<>>]
  ELSE [message |-> "Preparing revoke transaction...",
        txs |-> << [from |-> connectedAddress, to |-> tokenAddress,
                    data |-> data(spenderAddress)] >>]

\* lines 1302-1326: what revokeApproval displays and hands to the wallet
revokeApproval(tokenAddress, spenderAddress, walletAddress) ==
  IF connectedAddress = null
    THEN [message |-> "Please connect your wallet first", txs |-> <<>>]
  ELSE IF toLowerCase(connectedAddress) # toLowerCase(walletAddress)
    THEN [message |-> "Connected wallet does not match the approval owner", txs |-> <<>>]
  ELSE [message |-> "Preparing revoke transaction...",
        txs |-> << [from |-> connectedAddress, to |-> tokenAddress,
                    data |-> data(spenderAddress)] >>]

\* the (token, spender) pairs a scan can render, at most MaxCards of them
PagePairs == {[tokenAddress |-> t, spender |-> sp] : t \in PageTokens, sp \in PageSpenders}
PageApprovals == UNION {[1..n -> PagePairs] : n \in 0..MaxCards}

PageInit ==
  /\ page = "idle"
  /\ connectedAddress = null
  /\ scanned = null
  /\ cards = <<>>
  /\ revoke = NoRevoke
  /\ sent = <<>>
  /\ message = ""
  /\ Loaded
  /\ args = NoArgs
  /\ result = NoResult
  /\ called = FALSE
  /\ address = NoAddress
  /\ found = NotLooked
  /\ req = NoRequest
  /\ logs = <<>>
  /\ pc = "off"
  /\ activeApprovals = <<>>
  /\ tasks = <<>>
  /\ service = <<>>
  /\ response = NoResponse
  /\ calls = NoCalls

\* lines 1091-1120: the connect button, enabled until a connection succeeds
Connect ==
  /\ page # "off"
  /\ connectedAddress = null
  /\ \/ \E account \in Accounts :
          /\ connectedAddress' = account
          /\ message' = message
     \/ /\ connectedAddress' = null
        /\ message' = "Failed to connect wallet"
  /\ UNCHANGED <<page, scanned, cards, revoke, sent, registries, scoreVars, lookupVars, scanVars>>

\* lines 1126-1146: the scan button with an address in the input
FetchClick ==
  /\ page = "idle"
  /\ \E value \in WalletInputValues \cup {null} :
       IF value = null
         THEN /\ message' = "Please enter a wallet address or connect your wallet"
              /\ UNCHANGED <<page, scanned, cards>>
         ELSE /\ scanned' = value
              /\ cards' = <<>>
              /\ page' = "fetching"
              /\ message' = ""
  /\ UNCHANGED <<connectedAddress, revoke, sent, registries, scoreVars, lookupVars, scanVars>>

\* lines 1147-1299: the answer of the server arrives and is rendered
FetchReturn ==
  /\ page = "fetching"
  /\ \/ \E approvals \in PageApprovals :
          /\ cards' = [i \in 1..Len(approvals) |->
               [tokenAddress |-> approvals[i].tokenAddress,
                spender |-> approvals[i].spender,
                address |-> scanned,
                disabled |-> ~(/\ connectedAddress # null
                               /\ toLowerCase(connectedAddress) = toLowerCase(scanned))]]
          /\ message' = IF Len(approvals) = 0 THEN "No active approvals found"
                                              ELSE "Found active approval(s)"
     \/ /\ cards' = cards
        /\ message' = "Error: Failed to find approvals"
  /\ page' = "idle"
  /\ UNCHANGED <<connectedAddress, scanned, revoke, sent, registries, scoreVars, lookupVars, scanVars>>

\* one call of revokeApproval; the wallet accepts or refuses what it is handed
Revoke(tokenAddress, spenderAddress, walletAddress) ==
  /\ page # "off"
  /\ revoke.n < MaxRevokes
  /\ LET r == revokeApproval(tokenAddress, spenderAddress, walletAddress)
     IN  /\ revoke' = [n |-> revoke.n + 1, tokenAddress |-> tokenAddress,
                       spenderAddress |-> spenderAddress, walletAddress |-> walletAddress]
         /\ sent' = sent \o r.txs
         /\ \E accepted \in BOOLEAN :
              message' = IF r.txs = <<>> THEN r.message
                         ELSE IF accepted THEN "Transaction sent"
                         ELSE "Error: User rejected the request"
  /\ UNCHANGED <<page, connectedAddress, scanned, cards, registries, scoreVars, lookupVars, scanVars>>

\* lines 1281-1285: a click on a revoke button that is not disabled
RevokeClick ==
  \E i \in 1..Len(cards) :
    /\ ~cards[i].disabled
    /\ Revoke(cards[i].tokenAddress, cards[i].spender, cards[i].address)

\* revokeApproval is a global function of the page: a call with any arguments
RevokeCall ==
  \E tokenAddress \in PageTokens, spenderAddress \in PageSpenders,
     walletAddress \in WalletInputValues :
    Revoke(tokenAddress, spenderAddress, walletAddress)

PageNext ==
  \/ Connect
  \/ FetchClick
  \/ FetchReturn
  \/ RevokeClick
  \/ RevokeCall

SpecPage == PageInit /\ [][PageNext]_vars

(***************************************************************************)
(* The server: direct calls of its functions, or a request                 *)
(***************************************************************************)
Init == ScoreInit \/ LookupInit \/ CollectInit \/ ScanInit

Next == ScoreNext \/ LookupNext \/ CollectNext \/ ScanNext

Spec == Init /\ [][Next]_vars

(***************************************************************************)
(* Properties of the risk score                                            *)
(***************************************************************************)
Contributions(factors) == [i \in 1..Len(factors) |-> factors[i].contribution]

\* riskFactors.reduce((s, f) => s + f.contribution, 0)
RECURSIVE SumContributions(_, _)
SumContributions(factors, k) ==
  IF k = 0 THEN Num(0)
  ELSE Add(SumContributions(factors, k - 1), factors[k].contribution)

NumSeq(ks) == [i \in 1..Len(ks) |-> Num(ks[i])]

\* C1: every call of calculateRiskScore returns an integer score with
\* 0 <= score <= 100.
C1_ScoreInRange ==
  called => /\ result.score.t = "num"
            /\ result.score.n \in 0..100

\* C2: the Risk Level factor contributes 0 for 'low', 10 for 'medium', 20 for
\* 'high', 15 for 'unknown' and 15 for any unrecognized or missing riskLevel.
C2_RiskLevelContribution ==
  called =>
    result.factors[3].contribution =
      Num(CASE args.spenderDetails.riskLevel = "low" -> 0
            [] args.spenderDetails.riskLevel = "medium" -> 10
            [] args.spenderDetails.riskLevel = "high" -> 20
            [] OTHER -> 15)

\* C3: Scenario A (audited, DEX, low, allowance 2^256-1, no exploits) returns
\* the contributions [0, 4, 0, 20, 0] and the score 24.
C3_ScenarioA ==
  ( /\ called
    /\ args.spenderDetails.audited = "true"
    /\ args.spenderDetails.category = "DEX"
    /\ args.spenderDetails.riskLevel = "low"
    /\ args.allowance = maxUint256
    /\ args.exploits = ArrayOf(<<>>) )
  => /\ Contributions(result.factors) = NumSeq(<<0, 4, 0, 20, 0>>)
     /\ result.score = Num(24)

ScenarioB ==
  /\ ~FlagTruthy(args.spenderDetails.audited)
  /\ ~FlagTruthy(args.spenderDetails.isVerified)
  /\ args.spenderDetails.category = "Unknown"
  /\ args.spenderDetails.riskLevel = "high"
  /\ args.userBalance > 0
  /\ args.allowance = 20 * args.userBalance
  /\ args.allowance # maxUint256
  /\ args.exploits.t = "array"
  /\ Len(args.exploits.items) = 1

C6_AuditContribution ==
  called =>
    result.factors[1].contribution =
      Num(IF FlagTruthy(args.spenderDetails.audited) THEN 0
          ELSE IF FlagTruthy(args.spenderDetails.isVerified) THEN 12
          ELSE 25)

C6_Witness ==
  /\ called
  /\ args.spenderDetails.audited = "true"
  /\ args.spenderDetails.isVerified = "true"
  /\ result.factors[1].contribution = Num(0)

\* C7: the Category factor contributes DEX 4, Staking 8, Lending 12, Bridge 15,
\* NFT 20, Other 20, Unknown 25, and 20 for any other or missing category.
C7_CategoryContribution ==
  called =>
    result.factors[2].contribution =
      Num(CASE args.spenderDetails.category = "DEX" -> 4
            [] args.spenderDetails.category = "Staking" -> 8
            [] args.spenderDetails.category = "Lending" -> 12
            [] args.spenderDetails.category = "Bridge" -> 15
            [] args.spenderDetails.category = "NFT" -> 20
            [] args.spenderDetails.category = "Other" -> 20
            [] args.spenderDetails.category = "Unknown" -> 25
            [] OTHER -> 20)

\* C8: the Allowance factor is 20 when the allowance is 2^256-1 (whatever the
\* balance), else 15 when allowance > 10 * balance, else 10 when allowance >
\* balance, else 5; equality with balance or 10 * balance is the lower tier.
C8_AllowanceTiers ==
  called =>
    result.factors[4].contribution =
      Num(IF args.allowance = maxUint256 THEN 20
          ELSE IF args.allowance > 10 * args.userBalance THEN 15
          ELSE IF args.allowance > args.userBalance THEN 10
          ELSE 5)

C8_Witness ==
  /\ called
  /\ args.userBalance > 0
  /\ args.allowance = 10 * args.userBalance
  /\ result.factors[4].contribution = Num(10)

ApprovalResults ==
  {tasks[i].ret.v : i \in {j \in 1..Len(tasks) : tasks[j].ret.t = "object"}}
    \cup {response.approvals[i] : i \in 1..Len(response.approvals)}

\* C9: the Known Exploits factor contributes 15 for a list of one or more
\* exploits, however many, and 0 for an empty or absent list; in every
\* ApprovalResult hasKnownExploit is true exactly when the exploit list is
\* not empty, which is exactly when that factor contributes 15.
C9_ExploitFactor ==
  /\ called =>
       result.factors[5].contribution =
         Num(IF args.exploits.t = "array" /\ Len(args.exploits.items) >= 1
               THEN 15 ELSE 0)
  /\ \A r \in ApprovalResults :
       /\ r.hasKnownExploit <=> Len(r.exploits) > 0
       /\ r.hasKnownExploit <=> r.riskFactors[5].contribution = Num(15)
       /\ ~r.hasKnownExploit <=> r.riskFactors[5].contribution = Num(0)

C9_Witness ==
  /\ pc = "done"
  /\ \E i \in 1..Len(response.approvals) :
       /\ response.approvals[i].hasKnownExploit
       /\ Len(response.approvals[i].exploits) = 2
       /\ response.approvals[i].riskFactors[5].contribution = Num(15)
  /\ \E i \in 1..Len(response.approvals) :
       /\ ~response.approvals[i].hasKnownExploit
       /\ response.approvals[i].riskFactors[5].contribution = Num(0)

FactorNames == <<"Audit Status", "Category", "Risk Level", "Allowance", "Known Exploits">>

\* C10: every call returns exactly five factors, in the order Audit Status,
\* Category, Risk Level, Allowance, Known Exploits, each with a name, a value
\* and a contribution.
C10_FiveFactorsInOrder ==
  called =>
    /\ Len(result.factors) = 5
    /\ \A i \in 1..Len(result.factors) :
         /\ DOMAIN result.factors[i] = {"name", "value", "contribution"}
         /\ i <= 5 => result.factors[i].name = FactorNames[i]

C10_Witness ==
  /\ called
  /\ args.exploits = NullArg
  /\ Len(result.factors) = 5
  /\ result.factors[5].name = "Known Exploits"
  /\ result.factors[5].value = "None"

(***************************************************************************)
(* Properties of the approval scan                                         *)
(***************************************************************************)
\* the candidate of task i
Candidate(i) == MapValues(activeApprovals)[i]

\* the tasks whose candidate is the (token, spender) pair of a result
TasksOf(r) ==
  {i \in 1..Len(tasks) : /\ Candidate(i).tokenAddress = r.tokenAddress
                         /\ Candidate(i).spender = r.spender}

\* C12: no entry of the returned approvals comes from a candidate whose
\* allowance read returned 0; every entry carries the strictly positive
\* allowance read for its candidate during the request.
C12_NoZeroAllowance ==
  /\ \A i \in 1..Len(tasks) :
       (tasks[i].pc # "allowance" /\ tasks[i].allowance = 0)
         => /\ tasks[i].ret.t # "object"
            /\ \A j \in 1..Len(response.approvals) : i \notin TasksOf(response.approvals[j])
  /\ \A j \in 1..Len(response.approvals) :
       /\ response.approvals[j].allowance > 0
       /\ \E i \in TasksOf(response.approvals[j]) :
            tasks[i].allowance = response.approvals[j].allowance

C12_Witness ==
  /\ pc = "done"
  /\ response.status = 200
  /\ Len(response.approvals) = 1
  /\ \E i \in 1..Len(tasks) : tasks[i].ret.t = "undefined"

\* the (token, spender) pairs of the logs that parse
ParsedPairs ==
  {<<logs[k].address, logs[k].spender>> : k \in {x \in 1..Len(logs) : logs[x].parses}}

\* C13: the candidate set holds exactly one candidate per distinct (token,
\* spender) pair of the parseable logs, and the returned approvals hold at
\* most one entry per pair.
C13_OneCandidatePerPair ==
  /\ {activeApprovals[i].key : i \in 1..Len(activeApprovals)} = ParsedPairs
  /\ Len(activeApprovals) = Cardinality(ParsedPairs)
  /\ \A i \in 1..Len(activeApprovals) :
       activeApprovals[i].key =
         <<activeApprovals[i].value.tokenAddress, activeApprovals[i].value.spender>>
  /\ Len(tasks) = Len(activeApprovals)
  /\ \A j, k \in 1..Len(response.approvals) :
       ( /\ response.approvals[j].tokenAddress = response.approvals[k].tokenAddress
         /\ response.approvals[j].spender = response.approvals[k].spender ) => j = k

C13_Witness ==
  /\ pc = "done"
  /\ Len(logs) = 2
  /\ logs[1].parses
  /\ logs[1] = logs[2]
  /\ Len(activeApprovals) = 1
  /\ Len(response.approvals) = 1

\* the results of the tasks that resolved to an object, in task order
RECURSIVE Survivors(_)
Survivors(k) ==
  IF k = 0 THEN <<>>
  ELSE IF tasks[k].ret.t = "object" THEN Append(Survivors(k - 1), tasks[k].ret.v)
  ELSE Survivors(k - 1)

\* C14: a candidate whose allowance read or metadata reads fail is dropped
\* alone: the request still answers success, and its result holds every
\* candidate whose reads succeeded with a positive allowance and no other.
C14_PartialFailureIsolation ==
  (pc = "done" /\ Len(tasks) > 0)
  => /\ response.status = 200
     /\ response.success
     /\ response.count = Len(response.approvals)
     /\ response.approvals = Survivors(Len(tasks))
     /\ \A i \in 1..Len(tasks) :
          /\ tasks[i].pc = "done"
          /\ tasks[i].allowance > 0
               <=> \E j \in 1..Len(response.approvals) : i \in TasksOf(response.approvals[j])
          /\ tasks[i].ret.t = "null"
               => \A j \in 1..Len(response.approvals) : i \notin TasksOf(response.approvals[j])

C14_Witness ==
  /\ pc = "done"
  /\ response.status = 200
  /\ Len(response.approvals) = 1
  /\ \E i \in 1..Len(tasks) : tasks[i].ret.t = "null" /\ service[i] = NotAsked
  /\ \E i \in 1..Len(tasks) : tasks[i].ret.t = "object"

\* a chain selector was supplied and it does not denote chain 1
OtherChain == req.chainId # Undefined /\ req.chainId # Num(1)

\* C15: a request with a missing or malformed owner address, or with an
\* unsupported chain selector, is answered 400 and issues no external call.
C15_RejectBeforeCalls ==
  (pc # "off" /\ (InvalidAddress(req.walletAddress) \/ OtherChain))
  => /\ calls = NoCalls
     /\ pc = "done" => response.status = 400

\* C16: with a well-formed owner address, a request is accepted only if the
\* chain selector is absent or denotes chain 1; every other supplied value,
\* falsy ones included, is answered 400 without querying the chain.
C16_OnlyChainOne ==
  (pc # "off" /\ ~InvalidAddress(req.walletAddress) /\ OtherChain)
  => /\ calls = NoCalls
     /\ pc \in {"validate", "done"}
     /\ pc = "done" => response.status = 400

\* the entries of contract_database.json for an address, whatever its case
LocalEntries(spenderAddress) ==
  {k \in 1..Len(dbContracts) :
     toLowerCase(dbContracts[k].address) = toLowerCase(spenderAddress)}

\* the profile fields of an approval result
ProfileOf(r) ==
  [name |-> r.spenderName, isVerified |-> r.isVerified, riskLevel |-> r.riskLevel,
   category |-> r.category, audited |-> r.audited]

EtherscanCalls(i) ==
  IF <<"etherscan", i>> \in DOMAIN calls THEN calls[<<"etherscan", i>>] ELSE 0

\* C17: resolution goes local registry, then verification service, then
\* default, each step only if the previous one produced nothing; a spender in
\* the local registry (case-insensitively) gets its stored fields unchanged
\* and the verification service is never called for it.
C17_LocalFirst ==
  \A i \in 1..Len(tasks) :
    IF LocalEntries(Candidate(i).spender) # {}
      THEN /\ EtherscanCalls(i) = 0
           /\ service[i] = NotAsked
           /\ tasks[i].pc # "etherscan"
           /\ tasks[i].ret.t = "object" =>
                \A k \in LocalEntries(Candidate(i).spender) :
                  ProfileOf(tasks[i].ret.v) =
                    [name |-> dbContracts[k].name, isVerified |-> dbContracts[k].verified,
                     riskLevel |-> dbContracts[k].riskLevel,
                     category |-> dbContracts[k].category,
                     audited |-> dbContracts[k].audited]
      ELSE /\ tasks[i].ret.t = "object" =>
                /\ EtherscanCalls(i) = 1
                /\ service[i] # NotAsked
                /\ ProfileOf(tasks[i].ret.v) = DefaultProfile =>
                     \/ service[i] = ServiceFailed
                     \/ service[i] = Answered(<<>>)
           /\ service[i] # NotAsked => EtherscanCalls(i) = 1

C17_Witness ==
  /\ pc = "done"
  /\ \E i \in 1..Len(tasks) :
       /\ Candidate(i).spender = <<"A", "a">>
       /\ tasks[i].ret.t = "object"
       /\ tasks[i].ret.v.spenderName = "Uniswap V2 Router"
       /\ service[i] = NotAsked
  /\ \E i \in 1..Len(tasks) :
       /\ tasks[i].ret.t = "object"
       /\ service[i] = ServiceFailed

\* whether the verification service answered with a named first result
ServiceNamed(a) ==
  /\ a.t = "answered"
  /\ Len(a.result) > 0
  /\ a.result[1].ContractName # ""

\* C18: for a spender absent from the local registry the profile is the
\* synthesized one (riskLevel 'unknown', category 'Other') only when the
\* verification service returned a name; when the service answered without
\* a name the profile is the pessimistic default (riskLevel 'high',
\* category 'Unknown').
C18_SynthesizedOnlyWithName ==
  \A i \in 1..Len(tasks) :
    (LocalEntries(Candidate(i).spender) = {} /\ tasks[i].ret.t = "object") =>
      /\ (tasks[i].ret.v.riskLevel = "unknown" /\ tasks[i].ret.v.category = "Other")
           => ServiceNamed(service[i])
      /\ (service[i].t = "answered" /\ ~ServiceNamed(service[i]))
           => /\ tasks[i].ret.v.riskLevel = "high"
              /\ tasks[i].ret.v.category = "Unknown"

\* C19: getSpenderDetails never raises: for a spender with no local registry
\* entry a failed call of the verification service ends in the default
\* profile {name 'Unknown Contract', riskLevel 'high', category 'Unknown',
\* verified false, audited false}, and every resolution that was started
\* and has ended returned a profile.
C19_ResolverNeverRaises ==
  \A i \in 1..Len(tasks) :
    /\ service[i] = ServiceFailed =>
         /\ LocalEntries(Candidate(i).spender) = {}
         /\ tasks[i].pc = "done"
         /\ tasks[i].ret.t = "object"
         /\ ProfileOf(tasks[i].ret.v) =
              [name |-> "Unknown Contract", isVerified |-> "false", riskLevel |-> "high",
               category |-> "Unknown", audited |-> "false"]
    /\ (tasks[i].pc = "done" /\ EtherscanCalls(i) = 1) =>
         /\ tasks[i].ret.t = "object"
         /\ tasks[i].ret.v.riskLevel \in {"unknown", "high"}
    /\ (tasks[i].pc = "done" /\ tasks[i].allowance > 0
          /\ LocalEntries(Candidate(i).spender) # {}) =>
         tasks[i].ret.t = "object"

C19_Witness ==
  /\ pc = "done"
  /\ response.status = 200
  /\ \E i \in 1..Len(response.approvals) :
       /\ response.approvals[i].spender = <<"c", "c">>
       /\ response.approvals[i].spenderName = "Unknown Contract"
       /\ response.approvals[i].riskLevel = "high"
       /\ \E j \in 1..Len(tasks) :
            Candidate(j).spender = <<"c", "c">> /\ service[j] = ServiceFailed

(***************************************************************************)
(* Properties of the exploit lookup                                        *)
(***************************************************************************)
AffectedBy(exploit, a) ==
  \E k \in 1..Len(exploit.affectedContracts) :
    toLowerCase(exploit.affectedContracts[k]) = toLowerCase(a)

\* the exploits of the dataset that affect an address, in dataset order
ExploitsAffecting(a) == SelectSeq(exploitDbExploits, LAMBDA e : AffectedBy(e, a))

\* C20: checkForExploits returns, for an address in any letter case, the
\* exploit records whose affectedContracts contain the address compared
\* case-insensitively, in dataset order; for an address no exploit affects
\* it returns an empty list; and the lookup leaves the exploit map as it
\* was loaded.
C20_ExploitLookup ==
  /\ found # NotLooked =>
       /\ found.t = "array"
       /\ found.items = ExploitsAffecting(address)
  /\ \A r \in ApprovalResults : r.exploits = ExploitsAffecting(r.spender)
  /\ exploitDatabase = LoadExploits(exploitDbExploits, Len(exploitDbExploits))

C20_Witness ==
  /\ address = <<"a", "A">>
  /\ found.t = "array"
  /\ Len(found.items) = 2
  /\ found.items[1].name = "E1"
  /\ found.items[2].name = "E2"

\* an address no exploit affects
C20_WitnessEmpty ==
  /\ address = <<"C", "c">>
  /\ found = ArrayOf(<<>>)

(***************************************************************************)
(* Properties of the revocation                                            *)
(***************************************************************************)
Zeros(str, from, to) == \A i \in from..to : str[i] = "0"

\* C21: for a 20-byte spender address the revocation calldata is the
\* selector 0x095ea7b3, then the address left-padded with zeros to 32 bytes,
\* then 32 zero bytes, 4 + 32 + 32 bytes in all, and the transaction is
\* addressed to the token contract.
C21_RevocationCalldata ==
  /\ \A i \in 1..Len(sent) :
       /\ Len(sent[i].data) = 2 + 2 * (4 + 32 + 32)
       /\ SubSeq(sent[i].data, 1, 10) = selector
       /\ Zeros(sent[i].data, 11, 34)
       /\ \E sp \in PageSpenders : SubSeq(sent[i].data, 35, 74) = SubSeq(sp, 3, 42)
       /\ Zeros(sent[i].data, 75, 138)
       /\ sent[i].to \in PageTokens
  /\ (Len(sent) > 0 /\ message \in {"Transaction sent", "Error: User rejected the request"}) =>
       /\ SubSeq(sent[Len(sent)].data, 35, 74) = SubSeq(revoke.spenderAddress, 3, 42)
       /\ sent[Len(sent)].to = revoke.tokenAddress

C21_Witness ==
  /\ Len(sent) > 0
  /\ revoke.spenderAddress = HexAddress("A", "A")
  /\ SubSeq(sent[Len(sent)].data, 35, 74) = [i \in 1..40 |-> "A"]
  /\ message = "Transaction sent"

ValidInput ==
  /\ pc # "off"
  /\ ~InvalidAddress(req.walletAddress)
  /\ req.chainId \in {Undefined, Num(1)}

\* C23: no failure of an external call is fatal to a request with valid
\* input: whether the log query, an allowance read, a metadata read or the
\* verification service fails, the request ends with a successful response
\* carrying the results that survived.
C23_NoFailureIsFatal ==
  (ValidInput /\ pc = "done") =>
    /\ response.status = 200
    /\ response.success
    /\ response.count = Len(response.approvals)

C26_GenericServerFault ==
  (pc = "done" /\ response.status = 500) =>
    \A error \in ProviderErrors : response.error # error.message

\* every per-candidate operation has finished: it produced a result, was
\* dropped for a zero allowance, or failed
AllSettled ==
  \A i \in 1..Len(tasks) :
    /\ tasks[i].pc = "done"
    /\ tasks[i].ret.t \in {"object", "undefined", "null"}

\* C25: for a request that passed validation and whose log query succeeded,
\* the response is sent only after every per-candidate operation has
\* finished, under every interleaving of the operations; and a request sends
\* exactly one response: once sent it is never replaced.
C25_JoinBeforeResponse ==
  /\ [](response # NoResponse => pc = "done")
  /\ []((response # NoResponse /\ Len(activeApprovals) > 0) =>
          /\ Len(tasks) = Len(activeApprovals)
          /\ AllSettled
          /\ response.status = 200)
  /\ []((pc = "join" /\ ~AllSettled) => response = NoResponse)
  /\ [][response # NoResponse => response' = response]_vars
  /\ [][response' # response => pc # "done" /\ pc' = "done"]_vars

\* a response sent after one candidate failed and a later one, which needed
\* the verification service, produced a result
C25_Witness ==
  /\ pc = "done"
  /\ response.status = 200
  /\ Len(tasks) = 2
  /\ tasks[1].ret.t = "null"
  /\ tasks[2].ret.t = "object"
  /\ service[2] # NotAsked
  /\ Len(response.approvals) = 1

(***************************************************************************)
(* Properties of the external calls                                        *)
(***************************************************************************)
\* how many calls of a kind were issued for candidate i (0: the request)
CallsOf(c, kind, i) == IF <<kind, i>> \in DOMAIN c THEN c[<<kind, i>>] ELSE 0

MetadataReads == {"name", "symbol", "decimals", "balanceOf"}

\* C27: per candidate the allowance read completes first; the four metadata
\* reads are issued only if that allowance is > 0; the profile resolution
\* (and with it the call of the verification service) starts only after the
\* metadata reads have returned. A candidate with allowance 0, or whose
\* allowance or metadata read failed, never causes a call of the service.
C27_PerCandidateOrder ==
  /\ [](\A i \in 1..Len(tasks) :
          /\ CallsOf(calls, "allowance", i) = 1
          /\ \A k \in MetadataReads :
               CallsOf(calls, k, i) = CallsOf(calls, "name", i)
          /\ tasks[i].pc = "allowance" =>
               /\ CallsOf(calls, "name", i) = 0
               /\ CallsOf(calls, "etherscan", i) = 0
          /\ tasks[i].ret.t \in {"undefined", "null"} =>
               /\ CallsOf(calls, "etherscan", i) = 0
               /\ service[i] = NotAsked
          /\ tasks[i].ret.t = "undefined" => CallsOf(calls, "name", i) = 0
          /\ CallsOf(calls, "etherscan", i) > 0 => CallsOf(calls, "name", i) > 0)
  /\ [][\A i \in 1..Len(tasks) :
          /\ CallsOf(calls', "name", i) > CallsOf(calls, "name", i) =>
               /\ tasks[i].pc = "allowance"
               /\ tasks'[i].pc = "metadata"
               /\ tasks'[i].allowance > 0
          /\ CallsOf(calls', "etherscan", i) > CallsOf(calls, "etherscan", i) =>
               /\ tasks[i].pc = "metadata"
               /\ tasks'[i].pc = "etherscan"
               /\ tasks'[i].allowance > 0
          /\ (tasks[i].ret.t # "object" /\ tasks'[i].ret.t = "object") =>
               tasks[i].pc \in {"metadata", "etherscan"}]_vars

\* one candidate dropped for a zero allowance without any further call, one
\* that went through all the steps
C27_Witness ==
  /\ Len(tasks) = 2
  /\ tasks[1].ret.t = "undefined"
  /\ CallsOf(calls, "balanceOf", 1) = 0
  /\ tasks[2].ret.t = "object"
  /\ CallsOf(calls, "balanceOf", 2) = 1
  /\ CallsOf(calls, "etherscan", 2) = 1

\* C28: no automatic retry: within a request the log query is issued at
\* most once, each contract read at most once per candidate and the
\* verification-service lookup at most once per candidate; a failed call is
\* never issued again: it drops the candidate, degrades the profile or, for
\* the log query, fails the request.
C28_NoRetry ==
  /\ [](/\ \A k \in DOMAIN calls : calls[k] <= 1
        /\ \A k \in DOMAIN calls :
             /\ k[1] \in {"getLogs", "allowance", "etherscan"} \cup MetadataReads
             /\ k[1] = "getLogs" <=> k[2] = 0
             /\ k[1] # "getLogs" => k[2] \in 1..Len(tasks)
        /\ (pc = "done" /\ response.status = 500) =>
             DOMAIN calls = {<<"getLogs", 0>>}
        /\ \A i \in 1..Len(tasks) :
             service[i] = ServiceFailed =>
               /\ CallsOf(calls, "etherscan", i) = 1
               /\ tasks[i].pc = "done"
               /\ tasks[i].ret.t = "object")
  /\ [][/\ \A k \in DOMAIN calls : k \in DOMAIN calls' /\ calls'[k] = calls[k]
        /\ \A i \in 1..Len(tasks) :
             tasks[i].pc = "done" => tasks'[i] = tasks[i]]_vars

\* one candidate dropped after its metadata reads failed, one degraded to the
\* default profile after the verification service failed
C28_Witness ==
  /\ pc = "done"
  /\ Len(tasks) = 2
  /\ tasks[1].ret.t = "null"
  /\ CallsOf(calls, "balanceOf", 1) = 1
  /\ CallsOf(calls, "etherscan", 1) = 0
  /\ service[2] = ServiceFailed
  /\ CallsOf(calls, "etherscan", 2) = 1

(***************************************************************************)
(* Properties of the order of the results                                  *)
(***************************************************************************)
\* where a (token, spender) pair occurs first among the logs that parse
FirstOccurrence(ls, pair) ==
  CHOOSE k \in 1..Len(ls) :
    /\ ls[k].parses
    /\ <<ls[k].address, ls[k].spender>> = pair
    /\ \A j \in 1..(k - 1) : ~(ls[j].parses /\ <<ls[j].address, ls[j].spender>> = pair)

\* C29: the order of the returned approvals does not depend on the order in
\* which the candidates' operations complete: the surviving results appear
\* in candidate order, which is the order of the first occurrence of each
\* (token, spender) pair in the logs; the list is determined by the logs
\* and the results of the reads.
C29_ResultOrder ==
  /\ \A i, j \in 1..Len(activeApprovals) :
       i < j => FirstOccurrence(logs, activeApprovals[i].key)
                  < FirstOccurrence(logs, activeApprovals[j].key)
  /\ \A i, j \in 1..Len(response.approvals) :
       i < j =>
         FirstOccurrence(logs, <<response.approvals[i].tokenAddress,
                                 response.approvals[i].spender>>)
           < FirstOccurrence(logs, <<response.approvals[j].tokenAddress,
                                     response.approvals[j].spender>>)
  /\ (pc = "done" /\ response.status = 200) =>
       \A i \in 1..Len(tasks) :
         tasks[i].ret.t = "object" =>
           \E j \in 1..Len(response.approvals) :
             /\ response.approvals[j] = tasks[i].ret.v
             /\ j = Cardinality({k \in 1..i : tasks[k].ret.t = "object"})

\* two results returned: the first needed the verification service, the
\* second was answered from the contract database
C29_Witness ==
  /\ pc = "done"
  /\ Len(response.approvals) = 2
  /\ response.approvals[1].spender = <<"b", "B">>
  /\ response.approvals[2].spender = <<"A", "a">>
  /\ service[1] # NotAsked
  /\ service[2] = NotAsked

\* a pair that occurs again after another pair keeps its place
C29_WitnessRepeated ==
  /\ pc = "off"
  /\ Len(logs) = 3
  /\ Len(activeApprovals) = 2
  /\ <<logs[3].address, logs[3].spender>> = activeApprovals[1].key

(***************************************************************************)
(* Properties of the default profile                                       *)
(***************************************************************************)
\* a >= b on two returned scores; a comparison with NaN is false
GreaterOrEqual(a, b) == a.t = "num" /\ b.t = "num" /\ a.n >= b.n

\* the score of the default profile for the amounts and exploits of the call
DefaultScore ==
  calculateRiskScore(DefaultProfile, toString(args.allowance),
                     toString(args.userBalance), args.exploits)

\* C30: for every allowance, balance and exploit list the score computed
\* with the default profile is greater than or equal to the score computed
\* with any synthesized or local-registry profile, the default contributing
\* 25 + 25 + 20 = 70 on the first three factors.
C30_DefaultScoresHighest ==
  called =>
    /\ GreaterOrEqual(DefaultScore.score, result.score)
    /\ \A k \in 1..3 :
         GreaterOrEqual(DefaultScore.factors[k].contribution,
                        result.factors[k].contribution)
    /\ Contributions(DefaultScore.factors)[1] = Num(25)
    /\ Contributions(DefaultScore.factors)[2] = Num(25)
    /\ Contributions(DefaultScore.factors)[3] = Num(20)

====
